---- MODULE Spec2Model ----
(***************************************************************************)
(* State-machine model of oterm's conversation engine                      *)
(* (src/src/oterm/ollamaclient.py): OllamaLLM.__init__, completion and     *)
(* stream, with the transport (AsyncClient.chat) and the tool callables    *)
(* as nondeterministic collaborators, and of the module-level functions    *)
(* parse_format, parse_ollama_parameters and jsonify_options.              *)
(*                                                                         *)
(* Text is a sequence of characters (<<>> is the empty string).  An        *)
(* Optional value is None (<<>>) or Some(v) (<<v>>).                       *)
(***************************************************************************)
EXTENDS Integers, Sequences, FiniteSets, TLC

\* ---------------------------------------------------------------- bounds
\* operations (completion / stream calls) started in one behaviour
MaxOps == 2
\* tool rounds (recursive completion calls) of one completion
MaxRounds == 2
\* chunks delivered by one streaming transport call
MaxChunks == 2

\* ------------------------------------------------------- values and text
None == <<>>

Some(v) == <<v>>

EmptyStr == <<>>

\* Python truthiness of a str or list: non-empty
Truthy(s) == s # <<>>

\* Python truthiness of an Optional[str] / Optional[list]
TruthyOpt(o) == o # None /\ o[1] # <<>>

IsPrefix(s, t) == Len(s) <= Len(t) /\ SubSeq(t, 1, Len(s)) = s

\* no exception
NoError == [type |-> "", about |-> ""]

Engines == {1, 2}

\* the list objects a history attribute can refer to: the default argument
\* of __init__ (one object, created when the function is defined), a list
\* held by the caller, and the list built by `[system_prompt] + self.history`
ListIds == {"default", "caller", "own1", "own2"}

OwnList(e) == <<"own1", "own2">>[e]

\* --------------------------------------------------------- Python values
\* a scalar Python value: its type and its repr
Py(type, val) == [items |-> <<>>, type |-> type, val |-> val]

\* a Python list of values
PyList(items) == [items |-> items, type |-> "list", val |-> ""]

PyNone == Py("NoneType", "None")

\* bool(v), as evaluated by `if params.get(key):`
PyTruthy(v) ==
  CASE v.type = "NoneType" -> FALSE
    [] v.type = "bool" -> v.val = "True"
    [] v.type = "int" -> v.val # "0"
    [] v.type = "float" -> v.val # "0.0"
    [] v.type = "str" -> v.val # ""
    [] v.type = "list" -> v.items # <<>>
    [] OTHER -> TRUE

\* ---------------------------------------------------------------- options
\* Options.model_fields of this model, in declaration order
model_fields == <<"seed", "temperature">>

\* valid_params = set(Options.model_fields.keys())
valid_params == {model_fields[i] : i \in 1..Len(model_fields)}

\* Options(): every field is None
DefaultOptions == [key \in valid_params |-> PyNone]

\* the option values the engines and stream calls of this model are given
OptionValues == {PyNone, Py("int", "0"), Py("float", "0.5")}

OptionSets == [valid_params -> OptionValues]

\* variant: `if v` instead of `if v is not None`
KeepTruthy(dump) == [key \in {k \in DOMAIN dump : PyTruthy(dump[k])} |-> dump[key]]

\* {k: v for k, v in options.model_dump().items() if v is not None}
NonNull(dump) == [key \in {k \in DOMAIN dump : dump[k] # PyNone} |-> dump[key]]

\* d1 | d2 of two dicts: the entries of d2 win
DictUnion(d1, d2) ==
  [key \in DOMAIN d1 \cup DOMAIN d2 |-> IF key \in DOMAIN d2 THEN d2[key] ELSE d1[key]]

\* the options of the streaming request: lines 126-128
MergedOptions(options, additional_options) ==
  DictUnion(NonNull(options), NonNull(additional_options))

\* ----------------------------------------------------------- format text
\* a Python dict: its (key, value) items in insertion order
PyDict(items) == [items |-> items, type |-> "dict", val |-> ""]

FormatTexts == {"", "json", "{\"type\":\"object\"}", "{}", "not json", "JSON",
                "1", "[]", "\"s\"", "true", "null"}

\* json.loads on the texts above: the value, or JSONDecodeError raised
json_loads(format_text) ==
  CASE format_text = "{\"type\":\"object\"}" ->
         [raised |-> FALSE, value |-> PyDict(<< <<"type", Py("str", "object")>> >>)]
    [] format_text = "{}" -> [raised |-> FALSE, value |-> PyDict(<<>>)]
    [] format_text = "1" -> [raised |-> FALSE, value |-> Py("int", "1")]
    [] format_text = "[]" -> [raised |-> FALSE, value |-> PyList(<<>>)]
    [] format_text = "\"s\"" -> [raised |-> FALSE, value |-> Py("str", "s")]
    [] format_text = "true" -> [raised |-> FALSE, value |-> Py("bool", "True")]
    [] format_text = "null" -> [raised |-> FALSE, value |-> PyNone]
    [] OTHER -> [raised |-> TRUE, value |-> PyNone]

InvalidFormat(format_text) == [type |-> "Exception", about |-> format_text]

\* variant: without the isinstance(jsn, dict) test
parse_format_any_json(format_text) ==
  LET jsn == json_loads(format_text)
  IN IF ~jsn.raised
     THEN [raised |-> FALSE, value |-> jsn.value, error |-> InvalidFormat("")]
     ELSE IF format_text \in {"", "json"}
          THEN [raised |-> FALSE, value |-> Py("str", format_text),
                error |-> InvalidFormat("")]
          ELSE [raised |-> TRUE, value |-> PyNone, error |-> InvalidFormat(format_text)]

\* parse_format: [raised |-> FALSE, value |-> ...] or [raised |-> TRUE, error |-> ...]
parse_format(format_text) ==
  LET jsn == json_loads(format_text)
  IN IF ~jsn.raised
     THEN IF jsn.value.type = "dict"
          THEN [raised |-> FALSE, value |-> jsn.value, error |-> InvalidFormat("")]
          ELSE [raised |-> TRUE, value |-> PyNone, error |-> InvalidFormat(format_text)]
     ELSE IF format_text \in {"", "json"}
          THEN [raised |-> FALSE, value |-> Py("str", format_text),
                error |-> InvalidFormat("")]
          ELSE [raised |-> TRUE, value |-> PyNone, error |-> InvalidFormat(format_text)]

\* the formats an engine is constructed with in this model
EngineFormats == {"", "{\"type\":\"object\"}", "not json"}

\* --------------------------------------------------------- parameter text
\* lines of one parameter text
MaxLines == 3

\* a line of text: leading whitespace, then words separated by single spaces
Line(indent, words) == [indent |-> indent, words |-> words]

\* the lines parameter texts are made of: empty, whitespace only, a key
\* without a value, values that are falsy, truthy, a list, not a literal,
\* several words, a dict display with an unhashable key, an unknown key
ParameterLines ==
  { Line("", <<>>), Line(" ", <<>>), Line("", <<"seed">>),
    Line("", <<"seed", "0">>), Line("", <<"seed", "7">>),
    Line("", <<"seed", "False">>), Line("", <<"seed", "''">>),
    Line("", <<"seed", "[1]">>), Line("", <<"seed", "hello">>),
    Line("", <<"temperature", "0.5">>), Line(" ", <<"temperature", "a", "b">>),
    Line("", <<"foo", "1">>), Line("", <<"foo", "{[1]:2}">>) }

\* parameter_text.split("\n") of the texts of this model: one line at least
ParameterTexts == UNION {[1..n -> ParameterLines] : n \in 1..MaxLines}

\* variant: `if line.strip():`, a line of only whitespace is skipped
LineStripTruthy(line) == line.words # <<>>

\* `if line:`: the line is not the empty string
LineTruthy(line) == line.indent # "" \/ line.words # <<>>

RECURSIVE JoinWords(_)
JoinWords(words) ==
  IF Len(words) = 1 THEN words[1] ELSE words[1] \o " " \o JoinWords(Tail(words))

\* line.split(maxsplit=1): no part, the only word, or the first word and the
\* rest of the line
split_maxsplit_1(line) ==
  IF Len(line.words) <= 1 THEN line.words
  ELSE <<line.words[1], JoinWords(Tail(line.words))>>

\* ast.literal_eval on the value texts above: the value, or the error raised
literal_eval(value) ==
  CASE value = "0" -> [raised |-> "", value |-> Py("int", "0")]
    [] value = "1" -> [raised |-> "", value |-> Py("int", "1")]
    [] value = "7" -> [raised |-> "", value |-> Py("int", "7")]
    [] value = "0.5" -> [raised |-> "", value |-> Py("float", "0.5")]
    [] value = "False" -> [raised |-> "", value |-> Py("bool", "False")]
    [] value = "True" -> [raised |-> "", value |-> Py("bool", "True")]
    [] value = "''" -> [raised |-> "", value |-> Py("str", "")]
    [] value = "'x'" -> [raised |-> "", value |-> Py("str", "x")]
    [] value = "[1]" -> [raised |-> "", value |-> PyList(<<Py("int", "1")>>)]
    [] value = "{[1]:2}" -> [raised |-> "TypeError", value |-> PyNone]
    [] value = "hello" -> [raised |-> "ValueError", value |-> PyNone]
    [] OTHER -> [raised |-> "SyntaxError", value |-> PyNone]

\* lines 174-177: the evaluated literal, the raw text after a SyntaxError or
\* ValueError; any other error is not caught
EvalValue(value) ==
  LET ev == literal_eval(value)
  IN IF ev.raised = "" THEN ev
     ELSE IF ev.raised \in {"SyntaxError", "ValueError"}
          THEN [raised |-> "", value |-> Py("str", value)]
          ELSE ev

\* params.get(key)
Get(params, key) == IF key \in DOMAIN params THEN params[key] ELSE PyNone

\* params[key] = value
SetItem(params, key, value) ==
  [k \in DOMAIN params \cup {key} |-> IF k = key THEN value ELSE params[k]]

\* lines 180-186: what params[key] becomes
Accumulated(old, value) ==
  IF PyTruthy(old)
  THEN IF old.type # "list"
       THEN PyList(<<old, value>>)
       ELSE PyList(Append(old.items, value))
  ELSE value

ParameterError(type, about) == [type |-> type, about |-> about]

\* `for line in lines:` from line i on (lines 171-187)
RECURSIVE ForLines(_, _, _)
ForLines(lines, i, params) ==
  IF i > Len(lines) THEN [raised |-> FALSE, value |-> params, error |-> NoError]
  ELSE IF ~LineTruthy(lines[i]) THEN ForLines(lines, i + 1, params)
  ELSE LET parts == split_maxsplit_1(lines[i])
       IN IF Len(parts) # 2
          THEN [raised |-> TRUE, value |-> <<>>,
                error |-> ParameterError("ValueError", "unpack")]
          ELSE LET key == parts[1]
                   ev == EvalValue(parts[2])
               IN IF ev.raised # ""
                  THEN [raised |-> TRUE, value |-> <<>>,
                        error |-> ParameterError(ev.raised, parts[2])]
                  ELSE IF key \notin valid_params
                       THEN ForLines(lines, i + 1, params)
                       ELSE ForLines(lines, i + 1,
                              SetItem(params, key, Accumulated(Get(params, key), ev.value)))

parse_ollama_parameters(parameter_text) == ForLines(parameter_text, 1, DefaultOptions)

\* --------------------------------------------------------- jsonify_options
\* the scalar values of the option sets that are serialized
ScalarValues ==
  {PyNone, Py("int", "0"), Py("int", "7"), Py("float", "0.5"), Py("bool", "True"),
   Py("str", "x")}

ScalarOptionSets == [valid_params -> ScalarValues]

\* the (key, value) items of the dict comprehension of lines 192-196, in the
\* order of model_dump()
DumpItems(options) ==
  SelectSeq([i \in 1..Len(model_fields) |-> <<model_fields[i], options[model_fields[i]]>>],
            LAMBDA item : item[2] # PyNone)

\* the JSON text of a scalar
json_scalar(v) ==
  CASE v.type = "str" -> "\"" \o v.val \o "\""
    [] v.type = "bool" -> IF v.val = "True" THEN "true" ELSE "false"
    [] v.type = "NoneType" -> "null"
    [] OTHER -> v.val

\* variant: one `key value` line per item, the value as a Python literal
dumps_parameter_lines(items) ==
  IF items = <<>> THEN <<Line("", <<>>)>>
  ELSE [i \in 1..Len(items) |->
          Line("", <<items[i][1],
                     IF items[i][2].type = "str" THEN "'" \o items[i][2].val \o "'"
                     ELSE items[i][2].val>>)]

\* json.dumps(items, indent=2): the lines of the text
json_dumps_indent_2(items) ==
  IF items = <<>> THEN <<Line("", <<"{}">>)>>
  ELSE <<Line("", <<"{">>)>>
       \o [i \in 1..Len(items) |->
             Line("  ", <<"\"" \o items[i][1] \o "\":",
                          json_scalar(items[i][2])
                            \o (IF i < Len(items) THEN "," ELSE "")>>)]
       \o <<Line("", <<"}">>)>>

jsonify_options(options) == json_dumps_indent_2(DumpItems(options))

\* -------------------------------------------------------------- messages
\* ollama.Message(role=..., content=...): the other fields default to None
Message(role, content) ==
  [role |-> role, content |-> Some(content), images |-> None,
   tool_calls |-> None, name |-> None]

\* the dict appended to tool_messages
ToolMessage(tool_response, tool_name) ==
  [role |-> "tool", content |-> Some(tool_response), images |-> None,
   tool_calls |-> None, name |-> Some(tool_name)]

\* user_prompt of completion and stream: images are set only when truthy
UserPrompt(prompt, images) ==
  [Message("user", prompt) EXCEPT !.images = IF Truthy(images) THEN Some(images) ELSE None]

\* the (prompt, images) arguments of completion and stream
CallArgs == {<<EmptyStr, <<>>>>, <<<<"p">>, <<>>>>, <<<<"p">>, <<"img">>>>}

Systems == {None, Some(EmptyStr), Some(<<"s">>)}

\* ----------------------------------------------------------------- tools
ToolCallRequest(name) == [function |-> [name |-> name, arguments |-> "args"]]

\* a ToolDefinition: {"tool": Tool, "callable": f}
ToolDef(name, callable) ==
  [tool |-> [function |-> [name |-> name]], callable |-> callable]

\* the tool callables of this model: f_* are plain functions, g_* are
\* coroutine functions; *_ok returns a value, *_err raises Exception("e")
Callables == {"f_ok", "f_err", "g_ok", "g_err"}

\* inspect.iscoroutinefunction(tool_callable)
iscoroutinefunction(callable) == callable \in {"g_ok", "g_err"}

\* what calling (or awaiting) a tool callable does: it returns a value or
\* raises an Exception with the given args
Call(callable) ==
  IF callable \in {"f_ok", "g_ok"}
  THEN [raised |-> FALSE, value |-> <<"r">>, args |-> <<>>]
  ELSE [raised |-> TRUE, value |-> EmptyStr, args |-> << <<"e">> >>]

\* the tool_defs an engine is constructed with: none, one tool, two
\* definitions of the same name, two tools
ToolDefLists ==
  { <<>>,
    <<ToolDef("a", "f_err")>>,
    <<ToolDef("a", "g_err"), ToolDef("a", "f_ok")>>,
    <<ToolDef("a", "g_ok"), ToolDef("b", "f_err")>> }

\* str(e) of an Exception: its single argument, "" without arguments
str(args) == IF Len(args) = 1 THEN args[1] ELSE EmptyStr

\* self.tools = [tool["tool"] for tool in tool_defs]
ToolsOf(tool_defs) == [j \in 1..Len(tool_defs) |-> tool_defs[j].tool]

\* --------------------------------------------------- transport responses
Response(content, tool_calls) ==
  [message |-> [role |-> "assistant", content |-> content, images |-> None,
                tool_calls |-> tool_calls, name |-> None]]

\* ChatResponse values of the blocking call
Responses ==
  { Response(None, None),
    Response(Some(EmptyStr), Some(<<>>)),
    Response(Some(<<"x">>), None),
    Response(Some(EmptyStr), Some(<<ToolCallRequest("zz"), ToolCallRequest("a")>>)),
    Response(None, Some(<<ToolCallRequest("a"), ToolCallRequest("b")>>)) }

\* response.message.content of the chunks of the streaming call
ChunkContents == {None, Some(EmptyStr), Some(<<"a">>)}

TransportError == [type |-> "ResponseError", about |-> ""]

NotImplemented == [type |-> "NotImplementedError", about |-> ""]

\* ------------------------------------------------------------------ state
VARIABLES
  heap,               \* ListIds -> sequence of messages: the list objects
  llm,                \* Engines -> the attributes of each OllamaLLM
  pc,                 \* position of the operation in flight
  op,                 \* the operation in flight: kind, engine, arguments
  tool_call_messages, \* completion: argument of the current (recursive) call
  tool_calls,         \* completion: message.tool_calls being resolved
  tool_messages,      \* completion: local list of the current round
  idx,                \* completion: position of `for tool_call in tool_calls`
  text,               \* stream: the running buffer
  before,             \* history of the engine when the operation was called
  chat_log,           \* transport requests issued by the operation
  invocations,        \* tool callables invoked by the operation
  response,           \* completion: the last ChatResponse received
  chunks,             \* stream: response.message.content of the chunks received
  yielded,            \* values yielded by the stream operation
  result,             \* value returned by completion
  error,              \* exception that left the operation
  nops,               \* operations started
  tool_rounds,        \* completion: responses with tool calls received
  call,               \* the module-level function called last, its argument
  ret                 \* what that call returned or raised

vars == <<heap, llm, pc, op, tool_call_messages, tool_calls, tool_messages, idx,
          text, before, chat_log, invocations, response, chunks, yielded, result,
          error, nops, tool_rounds, call, ret>>

frame == <<tool_call_messages, tool_calls, tool_messages, idx, text>>

NoEngine ==
  [constructed |-> FALSE, system |-> None, history |-> "default", format |-> "",
   options |-> DefaultOptions, tool_defs |-> <<>>, tools |-> <<>>]

NoOp ==
  [kind |-> "none", engine |-> 1, prompt |-> EmptyStr, images |-> <<>>,
   additional_options |-> DefaultOptions, tool_defs |-> <<>>]

History(e) == heap[llm[e].history]

\* no module-level function has been called
NoCall == [fn |-> "none", arg |-> <<>>, source |-> None]

NoReturn == [raised |-> FALSE, value |-> <<>>, error |-> NoError]

Idle == pc \in {"idle", "returned", "raised"}

Init ==
  /\ heap = [l \in ListIds |-> <<>>]
  /\ llm = [e \in Engines |-> NoEngine]
  /\ pc = "idle"
  /\ op = NoOp
  /\ tool_call_messages = <<>>
  /\ tool_calls = <<>>
  /\ tool_messages = <<>>
  /\ idx = 1
  /\ text = EmptyStr
  /\ before = <<>>
  /\ chat_log = <<>>
  /\ invocations = <<>>
  /\ response = Response(None, None)
  /\ chunks = <<>>
  /\ yielded = <<>>
  /\ result = None
  /\ error = NoError
  /\ nops = 0
  /\ tool_rounds = 0
  /\ call = NoCall
  /\ ret = NoReturn

\* ---------------------------------------------------- OllamaLLM.__init__
\* variant: the system message is put after the initial history
SeedHistoryLast(system_prompt, history) == Append(history, system_prompt)

\* [system_prompt] + self.history: a new list
SeedHistory(system_prompt, history) == <<system_prompt>> \o history

\* history_arg is the list object bound to the `history` parameter
Construct(e, system, history_arg, format, options, tool_defs) ==
  /\ Idle
  /\ ~llm[e].constructed
  /\ LET own == TruthyOpt(system)
     IN /\ llm' = [llm EXCEPT ![e] =
                     [constructed |-> TRUE, system |-> system,
                      history |-> IF own THEN OwnList(e) ELSE history_arg,
                      format |-> format, options |-> options,
                      tool_defs |-> tool_defs,
                      tools |-> ToolsOf(tool_defs)]]
        /\ heap' = IF own
                   THEN [heap EXCEPT ![OwnList(e)] =
                           SeedHistory(Message("system", system[1]), heap[history_arg])]
                   ELSE heap
  /\ UNCHANGED <<pc, op, frame, before, chat_log, invocations, response, chunks,
                 yielded, result, error, nops, tool_rounds, call, ret>>

\* ------------------------------------------------- OllamaLLM.completion
\* variant: the user message is appended whatever the prompt
AppendUserAlways(h, prompt, images) == Append(h, UserPrompt(prompt, images))

\* `if prompt:` ... self.history.append(user_prompt)
AppendUser(h, prompt, images) ==
  IF Truthy(prompt) THEN Append(h, UserPrompt(prompt, images)) ELSE h

\* the arguments of client.chat
ChatRequest(e, messages, stream, options) ==
  [messages |-> messages, stream |-> stream, options |-> options,
   tools |-> llm[e].tools, format |-> parse_format(llm[e].format).value]

\* variant: str(message.content), which is "None" for an absent content
ContentAsStr(content) == IF content # None THEN content[1] ELSE <<"N", "o", "n", "e">>

\* message.content or ""
ContentOrEmpty(content) == IF TruthyOpt(content) THEN content[1] ELSE EmptyStr

\* variant: every definition is taken as a match
NameMatchesAny(tool_def, tool_name) == TRUE

\* tool_def["tool"]["function"]["name"] == tool_name
NameMatches(tool_def, tool_name) == tool_def.tool.function.name = tool_name

\* lines 85-88: the callable is awaited when it is a coroutine function,
\* called otherwise
Invoke(tool_callable) ==
  IF iscoroutinefunction(tool_callable) THEN Call(tool_callable) ELSE Call(tool_callable)

\* try: tool_response = ... except Exception as e: tool_response = str(e)
ToolResponse(outcome) == IF outcome.raised THEN str(outcome.args) ELSE outcome.value

\* one entry of the invocation log
Invocation(round, request, j, tool_callable, message) ==
  [round |-> round, request |-> request, def |-> j, callable |-> tool_callable,
   awaited |-> iscoroutinefunction(tool_callable),
   raised |-> Invoke(tool_callable).raised, args |-> Invoke(tool_callable).args,
   message |-> message]

\* `for tool_def in self.tool_defs:` from position j, for one tool_call;
\* acc = [msgs |-> tool_messages so far, invs |-> invocation log so far]
RECURSIVE ForToolDefs(_, _, _, _, _, _)
ForToolDefs(tool_defs, j, tool_name, round, request, acc) ==
  IF j > Len(tool_defs) THEN acc
  ELSE IF NameMatches(tool_defs[j], tool_name)
       THEN LET tool_callable == tool_defs[j].callable
                message == ToolMessage(ToolResponse(Invoke(tool_callable)), tool_name)
            IN ForToolDefs(tool_defs, j + 1, tool_name, round, request,
                 [msgs |-> Append(acc.msgs, message),
                  invs |-> Append(acc.invs,
                             Invocation(round, request, j, tool_callable, message))])
       ELSE ForToolDefs(tool_defs, j + 1, tool_name, round, request, acc)

\* variant: the tool messages are sent before the history
EnterCompletionToolsFirst(e, prompt, images, tcm) ==
  LET h2 == AppendUser(History(e), prompt, images)
      pf == parse_format(llm[e].format)
  IN /\ heap' = [heap EXCEPT ![llm[e].history] = h2]
     /\ tool_call_messages' = tcm
     /\ IF pf.raised
        THEN /\ pc' = "raised"
             /\ error' = pf.error
             /\ UNCHANGED chat_log
        ELSE /\ pc' = "chat"
             /\ UNCHANGED error
             /\ chat_log' = Append(chat_log, ChatRequest(e, tcm \o h2, FALSE, llm[e].options))

\* entry of completion: lines 60-72, up to the awaited client.chat
EnterCompletion(e, prompt, images, tcm) ==
  LET h2 == AppendUser(History(e), prompt, images)
      pf == parse_format(llm[e].format)
  IN /\ heap' = [heap EXCEPT ![llm[e].history] = h2]
     /\ tool_call_messages' = tcm
     /\ IF pf.raised
        THEN /\ pc' = "raised"
             /\ error' = pf.error
             /\ UNCHANGED chat_log
        ELSE /\ pc' = "chat"
             /\ UNCHANGED error
             /\ chat_log' = Append(chat_log, ChatRequest(e, h2 \o tcm, FALSE, llm[e].options))

CompletionCall(e, prompt, images) ==
  /\ Idle
  /\ llm[e].constructed
  /\ nops < MaxOps
  /\ nops' = nops + 1
  /\ op' = [kind |-> "completion", engine |-> e, prompt |-> prompt,
            images |-> images, additional_options |-> DefaultOptions,
            tool_defs |-> <<>>]
  /\ before' = History(e)
  /\ LET h2 == AppendUser(History(e), prompt, images)
         pf == parse_format(llm[e].format)
     IN /\ heap' = [heap EXCEPT ![llm[e].history] = h2]
        /\ IF pf.raised
           THEN /\ pc' = "raised"
                /\ error' = pf.error
                /\ chat_log' = <<>>
           ELSE /\ pc' = "chat"
                /\ error' = NoError
                /\ chat_log' = <<ChatRequest(e, h2, FALSE, llm[e].options)>>
  /\ tool_call_messages' = <<>>
  /\ tool_calls' = <<>>
  /\ tool_messages' = <<>>
  /\ idx' = 1
  /\ text' = EmptyStr
  /\ invocations' = <<>>
  /\ response' = Response(None, None)
  /\ chunks' = <<>>
  /\ yielded' = <<>>
  /\ result' = None
  /\ tool_rounds' = 0
  /\ UNCHANGED <<llm, call, ret>>

\* variant: after one tool round a response is taken as final whatever it
\* carries
ChatRespondLimited(response_) ==
  /\ pc = "chat"
  /\ response' = response_
  /\ LET message == response_.message
     IN IF TruthyOpt(message.tool_calls) /\ tool_rounds < 1
        THEN /\ Len(chat_log) <= MaxRounds
             /\ pc' = "tools"
             /\ tool_calls' = message.tool_calls[1]
             /\ tool_messages' = <<message>>
             /\ idx' = 1
             /\ tool_rounds' = tool_rounds + 1
             /\ UNCHANGED <<heap, result>>
        ELSE /\ heap' = [heap EXCEPT ![llm[op.engine].history] = Append(@, message)]
             /\ result' = Some(ContentOrEmpty(message.content))
             /\ pc' = "returned"
             /\ UNCHANGED <<tool_calls, tool_messages, idx, tool_rounds>>
  /\ UNCHANGED <<llm, op, tool_call_messages, text, before, chat_log, invocations,
                 chunks, yielded, error, nops, call, ret>>

\* the awaited client.chat returns: lines 73-76 and 102-103
ChatRespond(response_) ==
  /\ pc = "chat"
  /\ response' = response_
  /\ LET message == response_.message
     IN IF TruthyOpt(message.tool_calls)
        THEN /\ Len(chat_log) <= MaxRounds
             /\ pc' = "tools"
             /\ tool_calls' = message.tool_calls[1]
             /\ tool_messages' = <<message>>
             /\ idx' = 1
             /\ tool_rounds' = tool_rounds + 1
             /\ UNCHANGED <<heap, result>>
        ELSE /\ heap' = [heap EXCEPT ![llm[op.engine].history] = Append(@, message)]
             /\ result' = Some(ContentOrEmpty(message.content))
             /\ pc' = "returned"
             /\ UNCHANGED <<tool_calls, tool_messages, idx, tool_rounds>>
  /\ UNCHANGED <<llm, op, tool_call_messages, text, before, chat_log, invocations,
                 chunks, yielded, error, nops, call, ret>>

\* variant: the failed request is sent again
ChatFailRetries ==
  /\ pc = "chat"
  /\ Len(chat_log) <= MaxRounds
  /\ chat_log' = Append(chat_log, chat_log[Len(chat_log)])
  /\ UNCHANGED <<heap, llm, pc, op, frame, before, invocations, response, chunks,
                 yielded, result, error, nops, tool_rounds, call, ret>>

\* the awaited client.chat raises: nothing in completion catches it
ChatFail ==
  /\ pc = "chat"
  /\ pc' = "raised"
  /\ error' = TransportError
  /\ UNCHANGED <<heap, llm, op, frame, before, chat_log, invocations, response,
                 chunks, yielded, result, nops, tool_rounds, call, ret>>

\* one iteration of `for tool_call in tool_calls:` (lines 77-99)
ToolCallStep ==
  /\ pc = "tools"
  /\ idx <= Len(tool_calls)
  /\ LET tool_name == tool_calls[idx].function.name
         r == ForToolDefs(llm[op.engine].tool_defs, 1, tool_name, Len(chat_log),
                          idx, [msgs |-> tool_messages, invs |-> invocations])
     IN /\ tool_messages' = r.msgs
        /\ invocations' = r.invs
  /\ idx' = idx + 1
  /\ UNCHANGED <<heap, llm, pc, op, tool_call_messages, tool_calls, text, before,
                 chat_log, response, chunks, yielded, result, error, nops, tool_rounds, call, ret>>

\* line 100: return await self.completion(tool_call_messages=tool_messages),
\* the recursive call with the default (empty) prompt and images
Recurse ==
  /\ pc = "tools"
  /\ idx > Len(tool_calls)
  /\ EnterCompletion(op.engine, EmptyStr, <<>>, tool_messages)
  /\ UNCHANGED <<llm, op, tool_calls, tool_messages, idx, text, before,
                 invocations, response, chunks, yielded, result, nops, tool_rounds, call, ret>>

\* ----------------------------------------------------- OllamaLLM.stream
\* variant: the tool_defs argument is not looked at
StreamRejectsNever(tool_defs) == FALSE

\* `if tool_defs:` of stream
StreamRejects(tool_defs) == Truthy(tool_defs)

\* variant: the buffer holds the last chunk only
AccumulateDelta(t, content) == IF TruthyOpt(content) THEN content[1] ELSE t

\* text + response.message.content if response.message.content else text
Accumulate(t, content) == IF TruthyOpt(content) THEN t \o content[1] ELSE t

\* calling stream() creates the generator; no line of its body has run
StreamCall(e, prompt, images, additional_options, tool_defs) ==
  /\ Idle
  /\ llm[e].constructed
  /\ nops < MaxOps
  /\ nops' = nops + 1
  /\ op' = [kind |-> "stream", engine |-> e, prompt |-> prompt, images |-> images,
            additional_options |-> additional_options, tool_defs |-> tool_defs]
  /\ before' = History(e)
  /\ pc' = "generator"
  /\ error' = NoError
  /\ chat_log' = <<>>
  /\ tool_call_messages' = <<>>
  /\ tool_calls' = <<>>
  /\ tool_messages' = <<>>
  /\ idx' = 1
  /\ text' = EmptyStr
  /\ invocations' = <<>>
  /\ response' = Response(None, None)
  /\ chunks' = <<>>
  /\ yielded' = <<>>
  /\ result' = None
  /\ tool_rounds' = 0
  /\ UNCHANGED <<heap, llm, call, ret>>

\* the consumer's first step runs lines 113-139
StreamStart ==
  /\ pc = "generator"
  /\ IF StreamRejects(op.tool_defs)
     THEN /\ pc' = "raised"
          /\ error' = NotImplemented
          /\ UNCHANGED <<heap, chat_log>>
     ELSE LET e == op.engine
              h2 == Append(History(e), UserPrompt(op.prompt, op.images))
              pf == parse_format(llm[e].format)
          IN /\ heap' = [heap EXCEPT ![llm[e].history] = h2]
             /\ IF pf.raised
                THEN /\ pc' = "raised"
                     /\ error' = pf.error
                     /\ UNCHANGED chat_log
                ELSE /\ pc' = "streaming"
                     /\ UNCHANGED error
                     /\ chat_log' =
                          <<ChatRequest(e, h2, TRUE,
                              MergedOptions(llm[e].options, op.additional_options))>>
  /\ UNCHANGED <<llm, op, frame, before, invocations, response, chunks, yielded,
                 result, nops, tool_rounds, call, ret>>

\* one iteration of `async for response in stream:` (lines 140-142)
StreamChunk(content) ==
  /\ pc = "streaming"
  /\ Len(yielded) < MaxChunks
  /\ text' = Accumulate(text, content)
  /\ chunks' = Append(chunks, content)
  /\ yielded' = Append(yielded, text')
  /\ UNCHANGED <<heap, llm, pc, op, tool_call_messages, tool_calls, tool_messages,
                 idx, before, chat_log, invocations, response, result, error, nops, tool_rounds, call, ret>>

\* the stream is exhausted: line 144
StreamEnd ==
  /\ pc = "streaming"
  /\ heap' = [heap EXCEPT ![llm[op.engine].history] =
                Append(@, Message("assistant", text))]
  /\ pc' = "returned"
  /\ UNCHANGED <<llm, op, frame, before, chat_log, invocations, response, chunks,
                 yielded, result, error, nops, tool_rounds, call, ret>>

\* variant: the partial text is saved when the stream fails
StreamFailAppends ==
  /\ pc = "streaming"
  /\ pc' = "raised"
  /\ error' = TransportError
  /\ heap' = [heap EXCEPT ![llm[op.engine].history] =
                Append(@, Message("assistant", text))]
  /\ UNCHANGED <<llm, op, frame, before, chat_log, invocations, response, chunks,
                 yielded, result, nops, tool_rounds, call, ret>>

\* the transport fails while the stream is open
StreamFail ==
  /\ pc = "streaming"
  /\ pc' = "raised"
  /\ error' = TransportError
  /\ UNCHANGED <<heap, llm, op, frame, before, chat_log, invocations, response,
                 chunks, yielded, result, nops, tool_rounds, call, ret>>

\* ------------------------------------------------- module-level functions
\* what the calls of the module-level functions leave alone
engine_vars == <<heap, llm, pc, op, frame, before, chat_log, invocations, response,
                 chunks, yielded, result, error, nops, tool_rounds>>

ParseFormatCall(format_text) ==
  /\ call = NoCall
  /\ call' = [fn |-> "parse_format", arg |-> format_text, source |-> None]
  /\ ret' = parse_format(format_text)
  /\ UNCHANGED engine_vars

ParseParametersCall(parameter_text) ==
  /\ call = NoCall
  /\ call' = [fn |-> "parse_ollama_parameters", arg |-> parameter_text, source |-> None]
  /\ ret' = parse_ollama_parameters(parameter_text)
  /\ UNCHANGED engine_vars

JsonifyCall(options) ==
  /\ call = NoCall
  /\ call' = [fn |-> "jsonify_options", arg |-> options, source |-> None]
  /\ ret' = [raised |-> FALSE, value |-> jsonify_options(options), error |-> NoError]
  /\ UNCHANGED engine_vars

\* parse_ollama_parameters(jsonify_options(options)): the text just returned
\* is parsed
ParseSerialized ==
  /\ call.fn = "jsonify_options"
  /\ call' = [fn |-> "parse_ollama_parameters", arg |-> ret.value,
              source |-> Some(call.arg)]
  /\ ret' = parse_ollama_parameters(ret.value)
  /\ UNCHANGED engine_vars

\* ---------------------------------------------------------- specification
\* the engine the single-conversation specifications exercise
SpecEngines == {1}

\* the caller omits the history argument of __init__
HistoryArgs == {"default"}

StreamToolDefArgs == {<<>>, <<ToolDef("a", "f_ok")>>}

ConstructStep ==
  \E e \in SpecEngines, system \in Systems, history_arg \in HistoryArgs,
     format \in EngineFormats, tool_defs \in ToolDefLists :
    Construct(e, system, history_arg, format, DefaultOptions, tool_defs)

\* the engines of the streaming specification: without tools, with one tool
StreamEngineToolDefs == {<<>>, <<ToolDef("a", "f_ok")>>}

ConstructStepStream ==
  \E e \in SpecEngines, system \in Systems, history_arg \in HistoryArgs,
     format \in EngineFormats, tool_defs \in StreamEngineToolDefs :
    Construct(e, system, history_arg, format, DefaultOptions, tool_defs)

\* one conversation driven by completion calls
Next ==
  \/ ConstructStep
  \/ \E e \in SpecEngines, a \in CallArgs : CompletionCall(e, a[1], a[2])
  \/ \E response_ \in Responses : ChatRespond(response_)
  \/ ChatFail
  \/ ToolCallStep
  \/ Recurse

Spec == Init /\ [][Next]_vars

\* one conversation driven by stream calls
NextStream ==
  \/ ConstructStepStream
  \/ \E e \in SpecEngines, a \in CallArgs, tool_defs \in StreamToolDefArgs :
       StreamCall(e, a[1], a[2], DefaultOptions, tool_defs)
  \/ StreamStart
  \/ \E content \in ChunkContents : StreamChunk(content)
  \/ StreamEnd
  \/ StreamFail

SpecStream == Init /\ [][NextStream]_vars

\* the engines of the option-merging specification differ in their options
ConstructStepOptions ==
  \E e \in SpecEngines, system \in {None, Some(<<"s">>)}, options \in OptionSets :
    Construct(e, system, "default", "", options, <<>>)

\* stream calls with every combination of engine and additional options
NextOptions ==
  \/ ConstructStepOptions
  \/ \E e \in SpecEngines, additional_options \in OptionSets :
       StreamCall(e, <<"p">>, <<>>, additional_options, <<>>)
  \/ StreamStart
  \/ \E content \in ChunkContents : StreamChunk(content)
  \/ StreamEnd
  \/ StreamFail

SpecOptions == Init /\ [][NextOptions]_vars

\* the caller's list holds an earlier conversation or nothing
InitShared ==
  /\ heap \in {[l \in ListIds |-> IF l = "caller" THEN h ELSE <<>>] :
               h \in {<<>>, <<Message("user", <<"h">>)>>}}
  /\ llm = [e \in Engines |-> NoEngine]
  /\ pc = "idle"
  /\ op = NoOp
  /\ tool_call_messages = <<>>
  /\ tool_calls = <<>>
  /\ tool_messages = <<>>
  /\ idx = 1
  /\ text = EmptyStr
  /\ before = <<>>
  /\ chat_log = <<>>
  /\ invocations = <<>>
  /\ response = Response(None, None)
  /\ chunks = <<>>
  /\ yielded = <<>>
  /\ result = None
  /\ error = NoError
  /\ nops = 0
  /\ tool_rounds = 0
  /\ call = NoCall
  /\ ret = NoReturn

\* two engines, each constructed with or without a system prompt, with the
\* default history or the caller's list
ConstructStepShared ==
  \E e \in Engines, system \in {None, Some(<<"s">>)},
     history_arg \in {"default", "caller"} :
    Construct(e, system, history_arg, "", DefaultOptions, <<>>)

\* the transport answers with text or with a request for unregistered tools
SharedResponses ==
  { Response(Some(<<"x">>), None),
    Response(None, Some(<<ToolCallRequest("a"), ToolCallRequest("b")>>)) }

\* completion and stream operations on either engine
NextShared ==
  \/ ConstructStepShared
  \/ \E e \in Engines : CompletionCall(e, <<"p">>, <<>>)
  \/ \E response_ \in SharedResponses : ChatRespond(response_)
  \/ ChatFail
  \/ ToolCallStep
  \/ Recurse
  \/ \E e \in Engines : StreamCall(e, <<"p">>, <<>>, DefaultOptions, <<>>)
  \/ StreamStart
  \/ \E content \in {None, Some(<<"a">>)} : StreamChunk(content)
  \/ StreamEnd
  \/ StreamFail

SpecShared == InitShared /\ [][NextShared]_vars

\* one call of a module-level function on any of its inputs, and the parse
\* of a serialized option set
NextFunctions ==
  \/ \E format_text \in FormatTexts : ParseFormatCall(format_text)
  \/ \E parameter_text \in ParameterTexts : ParseParametersCall(parameter_text)
  \/ \E options \in ScalarOptionSets : JsonifyCall(options)
  \/ ParseSerialized

SpecFunctions == Init /\ [][NextFunctions]_vars

\* ------------------------------------------------------------ properties
\* the user message the operation in flight appends
UserMessage == UserPrompt(op.prompt, op.images)

\* C1: a completion with a non-empty prompt whose single transport response
\* carries no tool-call requests leaves history as the history before the
\* call, then the user message, then the assistant message of the response,
\* and returns that message's content, the empty string when it is absent.
C1_TerminalResponseAppendsTwo ==
  (op.kind = "completion" /\ pc = "returned" /\ Truthy(op.prompt) /\ Len(chat_log) = 1)
    => /\ History(op.engine) = before \o <<UserMessage, response.message>>
       /\ response.message.role = "assistant"
       /\ result = Some(IF response.message.content = None
                        THEN EmptyStr ELSE response.message.content[1])

\* C1 witness: such a completion returned on an engine that already had
\* history, from a response without content
C1_Witness ==
  /\ op.kind = "completion" /\ pc = "returned" /\ Truthy(op.prompt)
  /\ Len(chat_log) = 1
  /\ Len(before) >= 2
  /\ response.message.content = None
  /\ result = Some(EmptyStr)

\* a tool-call response has been received by the completion in flight
ToolRoundSeen == op.kind = "completion" /\ (pc = "tools" \/ Len(chat_log) >= 2)

\* C2: in a completion with a non-empty prompt that goes through tool rounds,
\* history is the history before the call and the user message in every
\* intermediate state, plus the final assistant message once returned; no
\* message with tool-call requests and no role=tool message is in it.
C2_ToolRoundsLeaveHistoryAlone ==
  (ToolRoundSeen /\ Truthy(op.prompt))
    => LET h == History(op.engine)
       IN /\ pc \in {"chat", "tools", "raised"} => h = before \o <<UserMessage>>
          /\ pc = "returned" =>
               h = before \o <<UserMessage, response.message>>
          /\ \A k \in (Len(before) + 1)..Len(h) :
               h[k].role # "tool" /\ ~TruthyOpt(h[k].tool_calls)

\* C2 witness: a completion returned after two tool rounds in which a tool
\* was invoked
C2_Witness ==
  /\ op.kind = "completion" /\ pc = "returned" /\ Truthy(op.prompt)
  /\ Len(chat_log) = 3
  /\ invocations # <<>>
  /\ Len(History(op.engine)) = Len(before) + 2

\* the tool name of a request is the name of some registered definition
Registered(e, tool_name) ==
  \E j \in 1..Len(llm[e].tool_defs) :
    llm[e].tool_defs[j].tool.function.name = tool_name

\* positions of the invocation log that belong to request k of round r
InvocationsOf(r, k) ==
  {n \in 1..Len(invocations) : invocations[n].round = r /\ invocations[n].request = k}

\* the role=tool messages produced in round r, in the order produced
RoundMessages(r) ==
  LET invs == SelectSeq(invocations, LAMBDA inv : inv.round = r)
  IN [n \in 1..Len(invs) |-> invs[n].message]

\* the errors a completion or stream lets through to its caller
PropagatedErrors ==
  {NoError, TransportError, NotImplemented} \cup {InvalidFormat(f) : f \in FormatTexts}

\* C3: a tool implementation that raises while invoked for a request does
\* not fail the completion; exactly one role=tool message is produced for
\* that request, with the string form of the error as content and the tool
\* name as name.  (Stated as claimed; the code violates it.)
C3_RaisingToolGivesOneMessage ==
  /\ error \in PropagatedErrors
  /\ \A n \in 1..Len(invocations) :
       invocations[n].raised =>
         /\ InvocationsOf(invocations[n].round, invocations[n].request) = {n}
         /\ invocations[n].message.role = "tool"
         /\ invocations[n].message.content = Some(invocations[n].args[1])
         /\ invocations[n].message.name # None

\* C4: a request naming an unregistered tool invokes nothing, produces no
\* role=tool message and raises nothing; the round's tool_messages are the
\* requesting assistant message and the messages of the other requests, and
\* the next transport request carries history followed by them.
C4_UnregisteredToolSkipped ==
  op.kind = "completion" =>
    /\ error \in PropagatedErrors
    /\ pc = "tools" =>
         /\ \A k \in 1..(idx - 1) :
              ~Registered(op.engine, tool_calls[k].function.name)
                => InvocationsOf(Len(chat_log), k) = {}
         /\ tool_messages = <<response.message>> \o RoundMessages(Len(chat_log))
    /\ (pc = "chat" /\ Len(chat_log) >= 2) =>
         /\ \A k \in 1..Len(tool_calls) :
              ~Registered(op.engine, tool_calls[k].function.name)
                => InvocationsOf(Len(chat_log) - 1, k) = {}
         /\ chat_log[Len(chat_log)].messages =
              History(op.engine) \o <<response.message>>
                \o RoundMessages(Len(chat_log) - 1)

\* C4 witness: the request was re-issued after a round whose first request
\* named an unregistered tool and whose second request was answered
C4_Witness ==
  /\ op.kind = "completion" /\ pc = "chat" /\ Len(chat_log) = 2
  /\ Len(tool_calls) = 2
  /\ ~Registered(op.engine, tool_calls[1].function.name)
  /\ Registered(op.engine, tool_calls[2].function.name)
  /\ Len(tool_call_messages) = 2
  /\ tool_call_messages[2].role = "tool"

\* C5: each tool-call request causes at most one invocation and at most one
\* role=tool message, also when several definitions share its name.
\* (Stated as claimed; the code violates it.)
C5_FirstMatchOnly ==
  \A n, m \in 1..Len(invocations) :
    (invocations[n].round = invocations[m].round
       /\ invocations[n].request = invocations[m].request) => n = m

\* C6: a stream operation called with a non-empty tool_defs argument fails
\* with NotImplementedError, once its body runs, before any transport call
\* and with history as it was before the call.
C6_StreamWithToolDefsRejected ==
  (op.kind = "stream" /\ Truthy(op.tool_defs) /\ pc # "generator")
    => /\ pc = "raised"
       /\ error = NotImplemented
       /\ chat_log = <<>>
       /\ History(op.engine) = before
       /\ yielded = <<>>

\* C6 witness: the rejection happened on an engine with history
C6_Witness ==
  /\ op.kind = "stream" /\ Truthy(op.tool_defs)
  /\ pc = "raised" /\ error = NotImplemented
  /\ before # <<>>

\* C7: on an engine constructed with tool definitions every stream operation
\* fails as unsupported before any transport request, and no streaming
\* request carries tool definitions.  (Stated as claimed; the code violates it.)
C7_NoStreamingRequestWithTools ==
  /\ \A n \in 1..Len(chat_log) : chat_log[n].stream => chat_log[n].tools = <<>>
  /\ (op.kind = "stream" /\ Truthy(llm[op.engine].tool_defs) /\ pc # "generator")
       => (pc = "raised" /\ error = NotImplemented /\ chat_log = <<>>)

\* the text of a chunk content, "" when it is absent
ChunkText(content) == IF content = None THEN EmptyStr ELSE content[1]

\* the value yielded before the n-th one ("" before the first)
YieldedBefore(n) == IF n = 1 THEN EmptyStr ELSE yielded[n - 1]

\* the stream operation in flight ran to exhaustion
StreamExhausted == op.kind = "stream" /\ pc = "returned"

LastMessage(e) == History(e)[Len(History(e))]

\* C8 as claimed: every yielded value strictly extends the previous one, and
\* the final assistant message holds the last yielded value.
C8_StrictPrefixExtension ==
  op.kind = "stream" =>
    /\ \A n \in 2..Len(yielded) :
         IsPrefix(yielded[n - 1], yielded[n]) /\ Len(yielded[n - 1]) < Len(yielded[n])
    /\ (StreamExhausted /\ yielded # <<>>) =>
         LastMessage(op.engine) = Message("assistant", yielded[Len(yielded)])

\* C8 amended: every yielded value is the previous one followed by the text
\* of the chunk received (so equal to it when the chunk content is empty or
\* absent, a strict extension otherwise), and the final assistant message
\* holds the last yielded value ("" when nothing was yielded).
C8_PrefixExtension ==
  op.kind = "stream" =>
    /\ Len(yielded) = Len(chunks)
    /\ \A n \in 1..Len(yielded) :
         /\ yielded[n] = YieldedBefore(n) \o ChunkText(chunks[n])
         /\ IsPrefix(YieldedBefore(n), yielded[n])
    /\ StreamExhausted =>
         /\ Len(History(op.engine)) = Len(before) + 2
         /\ LastMessage(op.engine) =
              Message("assistant", YieldedBefore(Len(yielded) + 1))

\* C8 witness: a stream ran to exhaustion after a chunk with text and a
\* chunk without, which yielded the same value twice
C8_Witness ==
  /\ StreamExhausted
  /\ Len(yielded) = 2
  /\ yielded[1] # EmptyStr
  /\ yielded[2] = yielded[1]
  /\ ~TruthyOpt(chunks[2])

\* C9: when the underlying stream fails, after any number of yielded values,
\* the error reaches the consumer and history is the history before the call
\* followed by the user message: no assistant message is appended.
C9_StreamFailureKeepsUserMessageOnly ==
  (op.kind = "stream" /\ pc = "raised" /\ error = TransportError)
    => History(op.engine) = before \o <<UserMessage>>

\* C9 witness: the stream failed after partial text had been yielded
C9_Witness ==
  /\ op.kind = "stream" /\ pc = "raised" /\ error = TransportError
  /\ yielded # <<>>
  /\ text # EmptyStr

\* the user message a completion appends: none for an empty prompt
CompletionUserMessages == IF Truthy(op.prompt) THEN <<UserMessage>> ELSE <<>>

\* history while and after a transport call of a completion fails
C10_HistoryOnTransportFailure ==
  (op.kind = "completion" /\ pc = "raised" /\ error = TransportError)
    => History(op.engine) = before \o CompletionUserMessages

\* a completion issues no transport request while one is pending, so none
\* after one failed
C10_NoRetryStep ==
  (op.kind = "completion" /\ pc = "chat")
    => (chat_log' = chat_log /\ (pc' = "raised" => (error' = TransportError /\ heap' = heap)))

\* C10: a failed transport call of a completion, in the first or a later
\* round, propagates, is not retried, and leaves history as the history
\* before the call followed by the user message.
C10_TransportFailurePropagates ==
  [](C10_HistoryOnTransportFailure) /\ [][C10_NoRetryStep]_vars

\* C10 witness: the transport failed in the round after a tool round
C10_Witness ==
  /\ op.kind = "completion" /\ pc = "raised" /\ error = TransportError
  /\ Truthy(op.prompt)
  /\ Len(chat_log) = 2
  /\ invocations # <<>>

\* the options of the streaming request, key by key
C11_SentOptions ==
  (op.kind = "stream" /\ chat_log # <<>>)
    => LET sent == chat_log[1].options
           own == llm[op.engine].options
           additional == op.additional_options
       IN \A key \in valid_params :
            /\ additional[key] # PyNone
                 => key \in DOMAIN sent /\ sent[key] = additional[key]
            /\ (additional[key] = PyNone /\ own[key] # PyNone)
                 => key \in DOMAIN sent /\ sent[key] = own[key]
            /\ (additional[key] = PyNone /\ own[key] = PyNone)
                 => key \notin DOMAIN sent

\* no step changes the options of a constructed engine
C11_OptionsKept ==
  \A e \in Engines : llm[e].constructed => llm'[e].options = llm[e].options

\* C11: the options of the streaming request are the override-merge: for
\* every key the additional option's value when it is not None, otherwise the
\* engine option's value when it is not None, otherwise the key is absent;
\* no step of a stream operation changes the options of the engine.
C11_StreamOptionsOverrideMerge == [](C11_SentOptions) /\ [][C11_OptionsKept]_vars

\* C11 witness: a streaming request was sent where the additional options
\* override one engine option with zero and leave the other to the engine
C11_Witness ==
  /\ op.kind = "stream" /\ chat_log # <<>>
  /\ llm[op.engine].options = [seed |-> Py("int", "0"), temperature |-> Py("float", "0.5")]
  /\ op.additional_options = [seed |-> PyNone, temperature |-> Py("int", "0")]
  /\ chat_log[1].options = [seed |-> Py("int", "0"), temperature |-> Py("int", "0")]

\* C12: parse_format has three outcomes: a text that parses as a JSON object
\* gives that object; "" and "json" give themselves; every other text,
\* valid JSON that is not an object included, raises the invalid-format
\* error that names the text.
C12_FormatThreeOutcomes ==
  call.fn = "parse_format"
    => LET format_text == call.arg
           object == ~json_loads(format_text).raised
                       /\ json_loads(format_text).value.type = "dict"
           keyword == format_text \in {"", "json"}
       IN /\ ~(object /\ keyword)
          /\ object => /\ ~ret.raised
                       /\ ret.value = json_loads(format_text).value
                       /\ ret.value.type = "dict"
          /\ keyword => ~ret.raised /\ ret.value = Py("str", format_text)
          /\ (~object /\ ~keyword)
               => /\ ret.raised
                  /\ ret.error = [type |-> "Exception", about |-> format_text]

\* C12 witness: a text that is valid JSON but not an object was rejected
C12_Witness ==
  /\ call.fn = "parse_format"
  /\ call.arg = "[]"
  /\ ret.raised
  /\ ret.error.about = "[]"

\* the values the lines of a text give for a key, in line order
RECURSIVE ValuesOf(_, _)
ValuesOf(lines, key) ==
  IF lines = <<>> THEN <<>>
  ELSE LET parts == split_maxsplit_1(Head(lines))
       IN IF Len(parts) = 2 /\ parts[1] = key
          THEN <<EvalValue(parts[2]).value>> \o ValuesOf(Tail(lines), key)
          ELSE ValuesOf(Tail(lines), key)

\* C13: when a recognized key occurs n >= 2 times in the parameter text with
\* values v1..vn, the parsed option set holds for that key the list
\* [v1, ..., vn] in line order, whatever the values (zero, false and the empty
\* string included).
C13_RepeatedKeyAccumulates ==
  (call.fn = "parse_ollama_parameters" /\ ~ret.raised)
    => \A key \in valid_params :
         Len(ValuesOf(call.arg, key)) >= 2
           => ret.value[key] = PyList(ValuesOf(call.arg, key))

\* the parse of the text that jsonify_options returned for an option set
ParsedSerialized == call.fn = "parse_ollama_parameters" /\ call.source # None

Malformed(line) ==
  /\ line.indent # "" \/ line.words # <<>>
  /\ \/ Len(line.words) < 2
     \/ literal_eval(JoinWords(Tail(line.words))).raised
          \notin {"", "SyntaxError", "ValueError"}

\* C20 as stated: for every text of newline-separated lines, a line with a
\* key and no value and a line of only whitespace included, the parse returns
\* an option set without raising, with keys of the recognized set only.
C20_ParseTotal ==
  call.fn = "parse_ollama_parameters"
    => ~ret.raised /\ DOMAIN ret.value \subseteq valid_params

\* C20 amended: the parse returns an option set, with keys of the recognized
\* set only, exactly when no line of the text is malformed: empty lines,
\* lines with an unrecognized key and values that are not literals are
\* tolerated; a key with no value or a line of only whitespace raises
\* ValueError, and an error of the literal evaluation other than SyntaxError
\* and ValueError is raised as it is.
C20_ParseRaisesOnMalformedLine ==
  call.fn = "parse_ollama_parameters"
    => LET lines == call.arg
           bad == {i \in 1..Len(lines) : Malformed(lines[i])}
       IN /\ ret.raised <=> bad # {}
          /\ ret.raised
               => LET first == CHOOSE i \in bad : \A j \in bad : i <= j
                  IN ret.error.type =
                       IF Len(lines[first].words) < 2 THEN "ValueError" ELSE "TypeError"
          /\ ~ret.raised => DOMAIN ret.value \subseteq valid_params

\* C20 witness: a text with an empty line, an unrecognized key and a value
\* that is not a literal was parsed and returned
C20_Witness ==
  /\ call.fn = "parse_ollama_parameters"
  /\ call.arg = <<Line("", <<"foo", "1">>), Line("", <<>>), Line("", <<"seed", "hello">>)>>
  /\ ~ret.raised
  /\ ret.value = [seed |-> Py("str", "hello"), temperature |-> PyNone]

\* a step of a completion or stream operation on engine e
OperationStepOn(e) == llm' = llm /\ op'.kind # "none" /\ op'.engine = e

\* a step of an operation on e leaves the lists of the others alone
C15_OperationKeepsOtherLists ==
  \A e \in Engines :
    OperationStepOn(e)
      => /\ heap'["caller"] = heap["caller"]
         /\ \A other \in Engines \ {e} :
              llm[other].constructed => History(other)' = History(other)

\* C15: each engine owns its history: no step of a completion or stream
\* operation on one engine changes the history of another constructed
\* engine, nor the list held by the caller.
C15_HistoryOwnedExclusively == [][C15_OperationKeepsOtherLists]_vars

\* a step only extends the history of a constructed engine
C16_HistoryExtended ==
  \A e \in Engines : llm[e].constructed => IsPrefix(History(e), History(e)')

\* the system message stays first
C16_SystemFirst ==
  \A e \in Engines :
    (llm[e].constructed /\ llm[e].system # None /\ llm[e].system[1] # EmptyStr)
      => /\ History(e) # <<>>
         /\ History(e)[1] = Message("system", llm[e].system[1])

\* C16: history is append-only and starts with the system message: in every
\* step the history of a constructed engine is a prefix of its history after
\* the step, and the history of an engine constructed with a non-empty system
\* prompt starts with the system message of that prompt.
C16_AppendOnly == [](C16_SystemFirst) /\ [][C16_HistoryExtended]_vars

\* C16 witness: an engine constructed with a system prompt on the caller's
\* earlier conversation went through a returned and a failed operation
C16_Witness ==
  /\ nops = 2 /\ pc = "raised"
  /\ llm[op.engine].system = Some(<<"s">>)
  /\ Len(History(op.engine)) = 5
  /\ History(op.engine)[2] = Message("user", <<"h">>)

\* the role=tool messages a request gives rise to: one for every definition
\* of its name, in definition order
ResultsFor(e, request) ==
  LET tool_name == request.function.name
      defs == SelectSeq(llm[e].tool_defs,
                        LAMBDA tool_def : tool_def.tool.function.name = tool_name)
  IN [j \in 1..Len(defs) |->
        [role |-> "tool",
         content |-> Some(IF Call(defs[j].callable).raised
                          THEN Call(defs[j].callable).args[1]
                          ELSE Call(defs[j].callable).value),
         images |-> None, tool_calls |-> None, name |-> Some(tool_name)]]

RECURSIVE ExpectedResults(_, _)
ExpectedResults(e, requests) ==
  IF requests = <<>> THEN <<>>
  ELSE ResultsFor(e, Head(requests)) \o ExpectedResults(e, Tail(requests))

\* the completion in flight issued a request after a tool round
AfterToolRound == op.kind = "completion" /\ pc = "chat" /\ Len(chat_log) >= 2

\* C17: the transport request issued right after a tool round carries the
\* current history, then the assistant message that requested the tools,
\* then the role=tool results in the order of the requests of that message;
\* a request of an unregistered tool contributes nothing.
C17_RequestAfterToolRound ==
  AfterToolRound
    => LET sent == chat_log[Len(chat_log)].messages
           n == Len(History(op.engine))
           requests == response.message.tool_calls[1]
       IN /\ Len(sent) >= n + 1
          /\ SubSeq(sent, 1, n) = History(op.engine)
          /\ sent[n + 1] = response.message
          /\ sent[n + 1].role = "assistant"
          /\ SubSeq(sent, n + 2, Len(sent)) = ExpectedResults(op.engine, requests)
          /\ \A k \in 1..Len(requests) :
               ~Registered(op.engine, requests[k].function.name)
                 => ResultsFor(op.engine, requests[k]) = <<>>

\* C17 witness: after a round with requests for a and b, answered by a
\* returning and by a raising tool, the request carries a's result before
\* b's, behind a history that holds a system message
C17_Witness ==
  /\ AfterToolRound
  /\ Len(History(op.engine)) = 2
  /\ LET sent == chat_log[Len(chat_log)].messages
     IN /\ Len(sent) = 5
        /\ sent[3].tool_calls = Some(<<ToolCallRequest("a"), ToolCallRequest("b")>>)
        /\ sent[4].name = Some("a") /\ sent[4].content = Some(<<"r">>)
        /\ sent[5].name = Some("b") /\ sent[5].content = Some(<<"e">>)

\* C18: in a completion with two or more tool rounds the tool messages
\* accumulate: the request of round k+1 carries what the request of round k
\* carried (history and the messages of rounds 1..k-1) followed by the
\* assistant message and the results of round k.
C18_ToolMessagesAccumulate ==
  (op.kind = "completion" /\ Len(chat_log) >= 3)
    => \A k \in 2..(Len(chat_log) - 1) :
         /\ IsPrefix(chat_log[k].messages, chat_log[k + 1].messages)
         /\ Len(chat_log[k + 1].messages) > Len(chat_log[k].messages)

\* requests sent against responses with tool calls received
C19_CallsAndRounds ==
  op.kind = "completion"
    => /\ pc = "tools"
            => TruthyOpt(response.message.tool_calls) /\ Len(chat_log) = tool_rounds
       /\ pc = "chat" => Len(chat_log) = tool_rounds + 1
       /\ pc = "returned"
            => /\ ~TruthyOpt(response.message.tool_calls)
               /\ Len(chat_log) = tool_rounds + 1

\* what follows a response, and what follows the tool loop
C19_NoReturnOnToolCalls ==
  /\ (pc = "chat" /\ pc' # "chat" /\ pc' # "raised")
       => IF TruthyOpt(response'.message.tool_calls)
          THEN pc' = "tools" /\ result' = None
          ELSE pc' = "returned"
  /\ (pc = "tools" /\ pc' # "tools")
       => pc' = "chat" /\ Len(chat_log') = Len(chat_log) + 1

\* C19: the completion returns exactly on a response without tool calls:
\* with N responses carrying tool calls received, N requests have been sent
\* while the tools run and N + 1 while the transport is awaited and when the
\* completion has returned; every response with tool calls is followed by
\* the tool loop and every tool loop by one more request, whatever N.
C19_EndsOnResponseWithoutToolCalls ==
  [](C19_CallsAndRounds) /\ [][C19_NoReturnOnToolCalls]_vars

\* C19 witness: a completion returned after two responses with tool calls
\* and a third one without, having sent three requests
C19_Witness ==
  /\ op.kind = "completion" /\ pc = "returned"
  /\ tool_rounds = 2
  /\ Len(chat_log) = 3
  /\ invocations # <<>>

====
